---- MODULE Spec2Model ----
(***************************************************************************)
(* Model of the scoring-and-allocation notebook                            *)
(* Production_Efficiency_and_Cost_Optimization.ipynb:                      *)
(*   df (read_csv) -> product_stats (groupby/agg)                          *)
(*      -> compute_product_scores -> optimize_production (linprog).        *)
(*                                                                         *)
(* Numbers.  The notebook computes in IEEE floating point.  A number is    *)
(* modelled as a pair <<n, d>>: a reduced fraction n/d with d > 0, or one  *)
(* of the three special values the float operations of the notebook can    *)
(* produce: <<1, 0>> = +inf, <<-1, 0>> = -inf, <<0, 0>> = NaN.  Rounding   *)
(* error of finite results is not modelled.                                *)
(*                                                                         *)
(* Product names are modelled by their rank in lexicographic order         *)
(* (1 < 2 < ...), which is all that groupby and the ranking use of them.   *)
(***************************************************************************)
EXTENDS Integers, Sequences, FiniteSets, TLC

VARIABLES df, product_stats, aggregated, argsort_ties, call

vars == <<df, product_stats, aggregated, argsort_ties, call>>

(***************************************************************************)
(* Bounds of the model.                                                    *)
(***************************************************************************)
MaxRecords == 2
MaxProducts == 2

(***************************************************************************)
(* Float arithmetic on <<n, d>>.                                           *)
(***************************************************************************)
Abs(i) == IF i < 0 THEN -i ELSE i

Sign(i) == IF i < 0 THEN -1 ELSE IF i > 0 THEN 1 ELSE 0

RECURSIVE GCD(_, _)
GCD(a, b) == IF b = 0 THEN a ELSE GCD(b, a % b)

NaN == <<0, 0>>

Norm(n, d) ==
    IF d = 0 THEN <<Sign(n), 0>>
    ELSE LET g == GCD(Abs(n), Abs(d))
             s == Sign(d)
         IN  <<(s * n) \div g, (s * d) \div g>>

F(i) == <<i, 1>>

IsNaN(a) == a = NaN
IsFinite(a) == a[2] # 0

\* a + b; inf + (-inf) and anything with NaN are NaN
FAdd(a, b) ==
    IF IsNaN(a) \/ IsNaN(b) THEN NaN
    ELSE IF a[2] = 0 /\ b[2] = 0 THEN (IF a = b THEN a ELSE NaN)
    ELSE IF a[2] = 0 THEN a
    ELSE IF b[2] = 0 THEN b
    ELSE Norm(a[1] * b[2] + b[1] * a[2], a[2] * b[2])

FNeg(a) == <<-a[1], a[2]>>

FSub(a, b) == FAdd(a, FNeg(b))

\* a * b; 0 * inf is NaN
FMul(a, b) == Norm(a[1] * b[1], a[2] * b[2])

\* a / b; x/0 is +-inf for x # 0, 0/0 and inf/inf are NaN, x/inf is 0
FDiv(a, b) ==
    IF IsNaN(a) \/ IsNaN(b) THEN NaN
    ELSE IF b[2] = 0 THEN (IF a[2] = 0 THEN NaN ELSE F(0))
    ELSE IF b[1] = 0 THEN <<Sign(a[1]), 0>>
    ELSE IF a[2] = 0 THEN <<a[1] * Sign(b[1]), 0>>
    ELSE Norm(a[1] * b[2], a[2] * b[1])

\* comparisons; every comparison with NaN is false
FLt(a, b) ==
    /\ ~IsNaN(a)
    /\ ~IsNaN(b)
    /\ IF a[2] = 0 /\ b[2] = 0 THEN a[1] < b[1]
       ELSE IF a[2] = 0 THEN a[1] < 0
       ELSE IF b[2] = 0 THEN b[1] > 0
       ELSE a[1] * b[2] < b[1] * a[2]

FLe(a, b) == ~IsNaN(a) /\ ~IsNaN(b) /\ ~FLt(b, a)

RECURSIVE FSum(_)
FSum(s) == IF s = <<>> THEN F(0) ELSE FAdd(Head(s), FSum(Tail(s)))

\* pandas Series.min / Series.max skip NaN; all-NaN (or empty) gives NaN
FMin(s) ==
    LET v == {s[i] : i \in DOMAIN s} \ {NaN}
    IN  IF v = {} THEN NaN
        ELSE CHOOSE m \in v : \A x \in v : FLe(m, x)

FMax(s) ==
    LET v == {s[i] : i \in DOMAIN s} \ {NaN}
    IN  IF v = {} THEN NaN
        ELSE CHOOSE m \in v : \A x \in v : FLe(x, m)

Floor(a) == a[1] \div a[2]

\* a faulty NpRound, np.ceil in its place: the bound of C7 fails for it
NpCeil(a) == IF a[1] % a[2] = 0 THEN Floor(a) ELSE Floor(a) + 1

\* np.round: nearest integer, halves to the even neighbour (finite a)
NpRound(a) ==
    LET f == Floor(a)
        twice == 2 * (a[1] - f * a[2])     \* 2 * fractional part * a[2]
    IN  IF twice < a[2] THEN f
        ELSE IF twice > a[2] THEN f + 1
        ELSE IF f % 2 = 0 THEN f ELSE f + 1

(***************************************************************************)
(* The input table df (one row per production order) and the aggregation   *)
(* into product_stats.                                                     *)
(***************************************************************************)
ProductNames == 1 .. MaxProducts

\* the values of the columns in the frames of the model
ProfitValues == {0, 1}
TimeValues == {0, 1}
MaterialQtyValues == {0}
MaterialCostValues == {1}
LaborHoursValues == {0, 3}
LaborCostValues == {1}
EnergyKwhValues == {0, 3}
EnergyCostValues == {1}
ActualQuantityValues == {0, 1}

ProductionRecord ==
    [product_name : ProductNames,
     profit_per_unit : ProfitValues,
     actual_cycle_time_per_unit_min : TimeValues,
     material_qty_used : MaterialQtyValues,
     material_cost_per_unit : MaterialCostValues,
     labor_hours : LaborHoursValues,
     labor_cost_per_hour : LaborCostValues,
     energy_kwh : EnergyKwhValues,
     energy_cost_per_kwh : EnergyCostValues,
     actual_quantity : ActualQuantityValues]

Frames == UNION {[1 .. n -> ProductionRecord] : n \in 1 .. MaxRecords}

\* the rows of frame whose product_name is p, in order
RECURSIVE Group(_, _)
Group(frame, p) ==
    IF frame = <<>> THEN <<>>
    ELSE IF Head(frame).product_name = p
         THEN <<Head(frame)>> \o Group(Tail(frame), p)
         ELSE Group(Tail(frame), p)

\* 'mean' of one column over a group
Mean(rows, col) ==
    FDiv(FSum([i \in DOMAIN rows |-> F(rows[i][col])]), F(Len(rows)))

resource_cost(m) ==
    FAdd(FAdd(FMul(m.material_qty_used, m.material_cost_per_unit),
              FDiv(FMul(m.labor_hours, m.labor_cost_per_hour), m.actual_quantity)),
         FDiv(FMul(m.energy_kwh, m.energy_cost_per_kwh), m.actual_quantity))

\* the aggregated row of product p
StatsRow(frame, p) ==
    LET g == Group(frame, p)
        m == [material_qty_used |-> Mean(g, "material_qty_used"),
              material_cost_per_unit |-> Mean(g, "material_cost_per_unit"),
              labor_hours |-> Mean(g, "labor_hours"),
              labor_cost_per_hour |-> Mean(g, "labor_cost_per_hour"),
              energy_kwh |-> Mean(g, "energy_kwh"),
              energy_cost_per_kwh |-> Mean(g, "energy_cost_per_kwh"),
              actual_quantity |-> Mean(g, "actual_quantity")]
    IN  [product_name |-> p,
         profit |-> Mean(g, "profit_per_unit"),
         time |-> Mean(g, "actual_cycle_time_per_unit_min"),
         actual_quantity |-> m.actual_quantity,
         resource |-> resource_cost(m)]

\* groupby('product_name'): one row per name present, in ascending name order
RECURSIVE GroupByAgg(_, _)
GroupByAgg(frame, p) ==
    IF p > MaxProducts THEN <<>>
    ELSE IF Group(frame, p) = <<>> THEN GroupByAgg(frame, p + 1)
    ELSE <<StatsRow(frame, p)>> \o GroupByAgg(frame, p + 1)

(***************************************************************************)
(* compute_product_scores.                                                 *)
(***************************************************************************)
Column(frame, col) == [i \in DOMAIN frame |-> frame[i][col]]

\* (col - col.min()) / (col.max() - col.min())
MinMaxNorm(frame, col) ==
    LET c == Column(frame, col)
        lo == FMin(c)
        hi == FMax(c)
    IN  [i \in DOMAIN frame |-> FDiv(FSub(c[i], lo), FSub(hi, lo))]

\* profit_norm - w_t * time_norm - w_r * resource_norm
Score(pn, tn, rn, w_t, w_r) == FSub(FSub(pn, FMul(w_t, tn)), FMul(w_r, rn))

\* the local df of compute_product_scores after its four column assignments
WithScores(frame, w_t, w_r) ==
    LET pn == MinMaxNorm(frame, "profit")
        tn == MinMaxNorm(frame, "time")
        rn == MinMaxNorm(frame, "resource")
    IN  [i \in DOMAIN frame |->
            [product_name |-> frame[i].product_name,
             profit |-> frame[i].profit,
             time |-> frame[i].time,
             resource |-> frame[i].resource,
             actual_quantity |-> frame[i].actual_quantity,
             profit_norm |-> pn[i],
             time_norm |-> tn[i],
             resource_norm |-> rn[i],
             score |-> Score(pn[i], tn[i], rn[i], w_t, w_r)]]

\* df[['product_name', 'profit', 'time', 'resource', 'score']]
SelectScoreColumns(frame) ==
    [i \in DOMAIN frame |->
        [product_name |-> frame[i].product_name,
         profit |-> frame[i].profit,
         time |-> frame[i].time,
         resource |-> frame[i].resource,
         score |-> frame[i].score]]

(***************************************************************************)
(* sort_values(by='score', ascending=False), default kind='quicksort' and  *)
(* na_position='last'.  Rows with a NaN score go last in their original    *)
(* order.  The other rows are in descending score order.  quicksort is not *)
(* a stable sort: the order of rows with equal score is whatever the numpy *)
(* build's argsort does with equal keys.  That is fixed for one build and  *)
(* unknown here: ties[a] is the rank the build gives position a among      *)
(* equal keys (the identity is a stable sort).                             *)
(***************************************************************************)
Before(frame, ties, a, b) ==
    LET sa == frame[a].score
        sb == frame[b].score
    IN  IF IsNaN(sa) THEN IsNaN(sb) /\ a < b
        ELSE IF IsNaN(sb) THEN TRUE
        ELSE \/ FLt(sb, sa)
             \/ sa = sb /\ ties[a] < ties[b]

SortValues(frame, ties) ==
    LET n == Len(frame)
        at(k) == CHOOSE a \in 1 .. n :
                    Cardinality({b \in 1 .. n : Before(frame, ties, b, a)}) = k - 1
    IN  [k \in 1 .. n |-> frame[at(k)]]

compute_product_scores(stats, ties, w_t, w_r) ==
    SortValues(SelectScoreColumns(WithScores(stats, w_t, w_r)), ties)

\* a faulty StatsAfterScoring, df = product_stats without the copy: C10
\* fails for it
StatsAfterScoringAliased(stats, local) == local

\* df = product_stats.copy(): the column assignments go to the copy, so the
\* global product_stats keeps its value
StatsAfterScoring(stats, local) == stats

(***************************************************************************)
(* scipy.optimize.linprog(c, A_ub=A, b_ub=b, bounds=[(0, None)]*n,         *)
(* method='highs'), as optimize_production calls it: minimise c.x subject  *)
(* to A[1].x <= b[1], A[2].x <= b[2], x >= 0.  The model is the library's  *)
(* documented behaviour, computed exactly:                                 *)
(*   - an input holding NaN or an infinity raises ValueError;              *)
(*   - status 2 when no x satisfies the constraints;                       *)
(*   - status 3 when the objective is unbounded below;                     *)
(*   - status 0 and an optimal basic solution x otherwise (which one, when *)
(*     several are optimal, is the solver's choice).                       *)
(* The basic solutions of a problem with two rows have at most two nonzero *)
(* x: the origin, one x on one tight row, two x on both tight rows.        *)
(***************************************************************************)
Dot(a, x) == FSum([i \in DOMAIN a |-> FMul(a[i], x[i])])

Unit(n, i, v) == [k \in 1 .. n |-> IF k = i THEN v ELSE F(0)]

BasicSolutions(A, b) ==
    LET n == Len(A[1])
        det(i, j) == FSub(FMul(A[1][i], A[2][j]), FMul(A[1][j], A[2][i]))
    IN  {[k \in 1 .. n |-> F(0)]}
        \cup {Unit(n, i, FDiv(b[r], A[r][i])) :
                <<i, r>> \in {ir \in (1 .. n) \X {1, 2} : A[ir[2]][ir[1]] # F(0)}}
        \cup {[k \in 1 .. n |->
                 IF k = ij[1]
                 THEN FDiv(FSub(FMul(b[1], A[2][ij[2]]), FMul(b[2], A[1][ij[2]])),
                           det(ij[1], ij[2]))
                 ELSE IF k = ij[2]
                 THEN FDiv(FSub(FMul(b[2], A[1][ij[1]]), FMul(b[1], A[2][ij[1]])),
                           det(ij[1], ij[2]))
                 ELSE F(0)] :
                ij \in {p \in (1 .. n) \X (1 .. n) :
                          p[1] < p[2] /\ det(p[1], p[2]) # F(0)}}

FeasiblePoint(A, b, x) ==
    /\ \A i \in DOMAIN x : FLe(F(0), x[i])
    /\ FLe(Dot(A[1], x), b[1])
    /\ FLe(Dot(A[2], x), b[2])

\* a direction that keeps every constraint and lowers c.x without end; with
\* the non-negative A the notebook passes, these are the unit directions
ImprovingRay(c, A) ==
    \E i \in DOMAIN c :
        /\ FLe(A[1][i], F(0))
        /\ FLe(A[2][i], F(0))
        /\ FLt(c[i], F(0))

MsgOptimal == "Optimization terminated successfully."
MsgInfeasible == "The problem is infeasible."
MsgUnbounded == "The problem is unbounded."

\* the set of results linprog may return; raised = "ValueError" when it raises
linprog(c, A, b) ==
    LET finite(s) == \A i \in DOMAIN s : IsFinite(s[i])
        feas == {<<x, Dot(c, x)>> :
                    x \in {y \in BasicSolutions(A, b) : FeasiblePoint(A, b, y)}}
        best == {p[1] : p \in {q \in feas : \A r \in feas : FLe(q[2], r[2])}}
    IN  IF ~(finite(c) /\ finite(A[1]) /\ finite(A[2]) /\ finite(b))
        THEN {[raised |-> "ValueError", success |-> FALSE, status |-> -1,
               message |-> "", x |-> <<>>]}
        ELSE IF feas = {}
        THEN {[raised |-> "", success |-> FALSE, status |-> 2,
               message |-> MsgInfeasible, x |-> <<>>]}
        ELSE IF ImprovingRay(c, A)
        THEN {[raised |-> "", success |-> FALSE, status |-> 3,
               message |-> MsgUnbounded, x |-> <<>>]}
        ELSE {[raised |-> "", success |-> TRUE, status |-> 0,
               message |-> MsgOptimal, x |-> x] : x \in best}

(***************************************************************************)
(* optimize_production.                                                    *)
(***************************************************************************)
\* a faulty Objective, the minus sign forgotten: C4 fails for it
ObjectiveNotNegated(data) == [i \in DOMAIN data |-> data[i].score]

\* c = -data['score'].values
Objective(data) == [i \in DOMAIN data |-> FNeg(data[i].score)]

\* A = [data['time'].values, data['resource'].values]
ConstraintRows(data) == <<Column(data, "time"), Column(data, "resource")>>

\* a faulty Budgets, the sign of the time budget flipped: C6 fails for it
BudgetsNegatedTime(T, R) == <<F(-T), F(R)>>

\* b = [T_max, R_max]
Budgets(T, R) == <<F(T), F(R)>>

\* np.round(quantities).astype(int)
RecommendedQty(x) == [i \in DOMAIN x |-> NpRound(x[i])]

\* a faulty QuantityRows, the quantities attached to the rows in the
\* opposite order: C8 fails for it
QuantityRowsMisaligned(data, quantities) ==
    [i \in DOMAIN data |->
        [product_name |-> data[i].product_name,
         score |-> data[i].score,
         recommended_qty |-> RecommendedQty(quantities)[Len(data) + 1 - i]]]

\* output[['product_name', 'score', 'recommended_qty']]
QuantityRows(data, quantities) ==
    [i \in DOMAIN data |->
        [product_name |-> data[i].product_name,
         score |-> data[i].score,
         recommended_qty |-> RecommendedQty(quantities)[i]]]

\* the value of the else branch
FailureValue(message) == "Optimization failed: " \o message

(***************************************************************************)
(* The inputs of the calls.                                                *)
(***************************************************************************)
\* the sliders: min=0.0, value=1.0 (max=3.0, step=0.1)
slider_min == 0
slider_value == 1
WeightValues == {F(slider_min), F(slider_value)}

\* the budgets of the notebook's own call and of interactive_optimizer
T_max == 80000
R_max == 10
interactive_T_max == 800000
interactive_R_max == 100000

\* <<T_max, R_max>> arguments: the two pairs of the notebook, and a
\* malformed negative time budget
BudgetValues ==
    {<<T_max, R_max>>, <<interactive_T_max, interactive_R_max>>, <<-1, R_max>>}

\* what a numpy build may do with equal sort keys: keep them in place (a
\* stable sort) or not (here: reverse them)
TieRanks ==
    {[a \in 1 .. MaxProducts |-> a], [a \in 1 .. MaxProducts |-> MaxProducts + 1 - a]}

\* the tables the aggregation produces from the frames that hold one order
\* of each of the products 1 .. n
OneOrderFrames ==
    UNION {{frame \in [1 .. n -> ProductionRecord] :
              \A i \in 1 .. n : frame[i].product_name = i} : n \in 1 .. MaxProducts}

Tables == {GroupByAgg(frame, 1) : frame \in OneOrderFrames}

(***************************************************************************)
(* The state.                                                              *)
(*   df             the table read_csv returned (<<>> before the read)     *)
(*   product_stats  the aggregated table (<<>> before the aggregation)     *)
(*   aggregated     history: product_stats as the aggregation produced it  *)
(*   argsort_ties   the build's order of equal sort keys                   *)
(*   call           the call being displayed: its arguments, its locals    *)
(*                  and what it returned or raised                         *)
(***************************************************************************)
NoCall ==
    [fn |-> "none", w_t |-> F(0), w_r |-> F(0), T |-> 0, R |-> 0,
     raised |-> "", returned |-> "nothing", rows |-> <<>>, message |-> "",
     local |-> <<>>, x |-> <<>>]

\* df = pd.read_csv(...)
ReadCsv ==
    /\ df = <<>>
    /\ df' \in Frames
    /\ UNCHANGED <<product_stats, aggregated, argsort_ties, call>>

\* product_stats = df.groupby('product_name').agg({...}).reset_index(), the
\* resource_cost column and the renaming
Aggregate ==
    /\ df # <<>>
    /\ product_stats = <<>>
    /\ product_stats' = GroupByAgg(df, 1)
    /\ aggregated' = product_stats'
    /\ UNCHANGED <<df, argsort_ties, call>>

ComputeProductScores(w_t, w_r) ==
    /\ product_stats # <<>>
    /\ call = NoCall
    /\ \E local \in {WithScores(product_stats, w_t, w_r)} :
          /\ product_stats' = StatsAfterScoring(product_stats, local)
          /\ call' = [NoCall EXCEPT
                        !.fn = "compute_product_scores",
                        !.w_t = w_t, !.w_r = w_r,
                        !.returned = "scores",
                        !.rows = SortValues(SelectScoreColumns(local), argsort_ties),
                        !.local = local]
    /\ UNCHANGED <<df, aggregated, argsort_ties>>

\* (the singleton sets bind each local to its value once)
OptimizeProduction(w_t, w_r, T, R) ==
    /\ product_stats # <<>>
    /\ call = NoCall
    /\ \E local \in {WithScores(product_stats, w_t, w_r)} :
       \E data \in {SortValues(SelectScoreColumns(local), argsort_ties)} :
       \E c \in {Objective(data)}, A \in {ConstraintRows(data)}, b \in {Budgets(T, R)} :
       \E result \in linprog(c, A, b) :
          /\ product_stats' = StatsAfterScoring(product_stats, local)
          /\ call' =
                LET args == [NoCall EXCEPT !.fn = "optimize_production",
                                           !.w_t = w_t, !.w_r = w_r,
                                           !.T = T, !.R = R, !.local = data]
                IN  IF result.raised # ""
                    THEN [args EXCEPT !.raised = result.raised]
                    ELSE IF result.success
                    THEN [args EXCEPT !.returned = "quantities",
                                      !.rows = QuantityRows(data, result.x),
                                      !.x = result.x]
                    ELSE [args EXCEPT !.returned = "message",
                                      !.message = FailureValue(result.message)]
    /\ UNCHANGED <<df, aggregated, argsort_ties>>

\* clear_output is imported nowhere in the notebook (only display is): the
\* first statement of interactive_optimizer raises NameError
InteractiveOptimizer(w_t, w_r) ==
    /\ product_stats # <<>>
    /\ call = NoCall
    /\ call' = [NoCall EXCEPT !.fn = "interactive_optimizer",
                              !.w_t = w_t, !.w_r = w_r,
                              !.raised = "NameError"]
    /\ UNCHANGED <<df, product_stats, aggregated, argsort_ties>>

\* the notebook has shown the value (or the traceback) of the call and
\* waits for the next one
Displayed ==
    /\ call # NoCall
    /\ call' = NoCall
    /\ UNCHANGED <<df, product_stats, aggregated, argsort_ties>>

(***************************************************************************)
(* SpecAggregate: the cells up to the aggregation.                         *)
(***************************************************************************)
InitAggregate ==
    /\ df = <<>>
    /\ product_stats = <<>>
    /\ aggregated = <<>>
    /\ argsort_ties = [a \in 1 .. MaxProducts |-> a]
    /\ call = NoCall

NextAggregate == ReadCsv \/ Aggregate

SpecAggregate == InitAggregate /\ [][NextAggregate]_vars

(***************************************************************************)
(* Spec: the calls of the three functions, from any state the aggregation  *)
(* leaves.  df is read by the aggregation only and is not carried here.    *)
(***************************************************************************)
Init ==
    /\ df = <<>>
    /\ product_stats \in Tables
    /\ aggregated = product_stats
    /\ argsort_ties \in TieRanks
    /\ call = NoCall

Next ==
    \/ \E w_t \in WeightValues, w_r \in WeightValues :
          ComputeProductScores(w_t, w_r)
    \/ \E w_t \in WeightValues, w_r \in WeightValues, TR \in BudgetValues :
          OptimizeProduction(w_t, w_r, TR[1], TR[2])
    \/ \E w_t \in WeightValues, w_r \in WeightValues :
          InteractiveOptimizer(w_t, w_r)
    \/ Displayed

Spec == Init /\ [][Next]_vars

(***************************************************************************)
(* Vocabulary of the properties.                                           *)
(***************************************************************************)
Scored == call.fn = "compute_product_scores"
Optimized == call.fn = "optimize_production"
Succeeded == Optimized /\ call.returned = "quantities"
Metrics == {"profit", "time", "resource"}
NormOf(col) ==
    IF col = "profit" THEN "profit_norm"
    ELSE IF col = "time" THEN "time_norm" ELSE "resource_norm"

FAbs(a) == <<Abs(a[1]), a[2]>>
Half == <<1, 2>>
IsInteger(a) == a[2] = 1

\* every product has the same, finite, value in column col
SameValue(stats, col) ==
    \A i, j \in DOMAIN stats : stats[i][col] = stats[j][col] /\ IsFinite(stats[i][col])

\* the rows of the LP of the displayed optimize_production call
Scores == Column(call.local, "score")
Times == Column(call.local, "time")
Resources == Column(call.local, "resource")
Quantities == [i \in DOMAIN call.rows |-> F(call.rows[i].recommended_qty)]
PositiveBudgets == call.T > 0 /\ call.R > 0
GenerousBudgets == call.T = interactive_T_max /\ call.R = interactive_R_max

\* the optimum of  maximise s.q  subject to  t.q <= T, r.q <= R, q >= 0,
\* computed from the dual problem: the least T*y1 + R*y2 over the vertices
\* y >= 0 of  t[i]*y1 + r[i]*y2 >= s[i]  (NaN when there is none)
DualOptimum(s, t, r, T, R) ==
    LET n == Len(s)
        det(i, j) == FSub(FMul(t[i], r[j]), FMul(t[j], r[i]))
        cands ==
            {<<F(0), F(0)>>}
            \cup {<<FDiv(s[i], t[i]), F(0)>> : i \in {k \in 1 .. n : t[k] # F(0)}}
            \cup {<<F(0), FDiv(s[i], r[i])>> : i \in {k \in 1 .. n : r[k] # F(0)}}
            \cup {<<FDiv(FSub(FMul(s[p[1]], r[p[2]]), FMul(s[p[2]], r[p[1]])),
                         det(p[1], p[2])),
                    FDiv(FSub(FMul(t[p[1]], s[p[2]]), FMul(t[p[2]], s[p[1]])),
                         det(p[1], p[2]))>> :
                    p \in {q \in (1 .. n) \X (1 .. n) :
                             q[1] < q[2] /\ det(q[1], q[2]) # F(0)}}
        ok == {y \in cands :
                 /\ FLe(F(0), y[1])
                 /\ FLe(F(0), y[2])
                 /\ \A i \in 1 .. n :
                       FLe(s[i], FAdd(FMul(t[i], y[1]), FMul(r[i], y[2])))}
        vals == {FAdd(FMul(F(T), y[1]), FMul(F(R), y[2])) : y \in ok}
    IN  IF vals = {} THEN NaN
        ELSE CHOOSE v \in vals : \A u \in vals : FLe(v, u)

(***************************************************************************)
(* C1.  Degenerate-metric policy: when every product has the same value of *)
(* a metric, compute_product_scores gives every product the normalized     *)
(* value 0 for that metric and a score that is a number.                   *)
(* The code divides 0 by 0: the normalized values and the scores are NaN.  *)
(***************************************************************************)
C1_DegenerateMetricIsZero ==
    Scored =>
        \A col \in Metrics :
            SameValue(product_stats, col) =>
                \A i \in DOMAIN call.local :
                    /\ call.local[i][NormOf(col)] = F(0)
                    /\ ~IsNaN(call.local[i].score)

(***************************************************************************)
(* C2.  Normalization range: for a metric with max > min, every normalized *)
(* value is in [0, 1], the product at the maximum has 1 and the product at *)
(* the minimum has 0.                                                      *)
(* Fails on a table the aggregation left an infinite or NaN resource in    *)
(* (C9): (inf - min) / (inf - min) is NaN.                                 *)
(***************************************************************************)
C2_NormalizationRange ==
    Scored =>
        \A col \in Metrics :
            LET c == Column(product_stats, col)
                lo == FMin(c)
                hi == FMax(c)
            IN  FLt(lo, hi) =>
                    \A i \in DOMAIN call.local :
                        LET v == call.local[i][NormOf(col)]
                        IN  /\ FLe(F(0), v)
                            /\ FLe(v, F(1))
                            /\ c[i] = hi => v = F(1)
                            /\ c[i] = lo => v = F(0)

\* the same on the tables whose values are all finite, where it holds
C2_NormalizationRangeFinite ==
    (Scored /\ \A col \in Metrics : \A i \in DOMAIN product_stats :
                  IsFinite(product_stats[i][col]))
        => C2_NormalizationRange

(***************************************************************************)
(* C3.  Ranking order: the returned rows are in descending score order and *)
(* rows of equal score are in ascending product-name order.                *)
(* Stated for the calls whose scores are all numbers.  The code sorts by   *)
(* score alone with a sort that is not stable: equal scores come out in    *)
(* the order the build's argsort leaves them in.                           *)
(***************************************************************************)
C3_RankingOrder ==
    (Scored /\ \A i \in DOMAIN call.rows : ~IsNaN(call.rows[i].score)) =>
        \A i, j \in DOMAIN call.rows :
            i < j =>
                \/ FLt(call.rows[j].score, call.rows[i].score)
                \/ /\ call.rows[i].score = call.rows[j].score
                   /\ call.rows[i].product_name < call.rows[j].product_name

\* the part the code does keep: descending score order
C3_DescendingScores ==
    (Scored /\ \A i \in DOMAIN call.rows : ~IsNaN(call.rows[i].score)) =>
        \A i, j \in DOMAIN call.rows :
            i < j => FLe(call.rows[j].score, call.rows[i].score)

(***************************************************************************)
(* C4.  Allocator optimality, as claimed: the objective value of the       *)
(* returned quantities, sum of score[i] * recommended_qty[i], equals the   *)
(* optimum of the LP.                                                      *)
(* The returned quantities are rounded: their objective value is not the   *)
(* optimum when the solution is fractional.                                *)
(***************************************************************************)
LPOptimum == DualOptimum(Scores, Times, Resources, call.T, call.R)

ExampleScores == <<F(1), Half>>
ExampleRows == <<<<F(2), F(1)>>, <<F(1), F(1)>>>>
ExampleResults ==
    linprog([i \in 1 .. 2 |-> FNeg(ExampleScores[i])], ExampleRows, <<F(10), F(10)>>)

FreePositiveProduct ==
    \E i \in DOMAIN call.local :
        /\ call.local[i].time = F(0)
        /\ call.local[i].resource = F(0)
        /\ FLt(F(0), call.local[i].score)

C5_UnboundedDetection ==
    (Optimized /\ PositiveBudgets /\ FreePositiveProduct) =>
        /\ call.raised = ""
        /\ call.returned = "message"
        /\ call.message = FailureValue(MsgUnbounded)
        /\ call.message # FailureValue(MsgInfeasible)

\* the same on the tables whose values are all finite, where it holds
C5_UnboundedDetectionFinite ==
    (\A col \in Metrics : \A i \in DOMAIN product_stats :
          IsFinite(product_stats[i][col]))
        => C5_UnboundedDetection

(***************************************************************************)
(* C6.  Feasibility floor: with non-negative time and resource             *)
(* coefficients and positive budgets, optimize_production never returns    *)
(* the failure value of an infeasible LP.                                  *)
(***************************************************************************)
NonNegativeCoefficients ==
    \A i \in DOMAIN call.local :
        /\ FLe(F(0), call.local[i].time)
        /\ FLe(F(0), call.local[i].resource)

ReportedInfeasible ==
    call.returned = "message" /\ call.message = FailureValue(MsgInfeasible)

C6_FeasibilityFloor ==
    (Optimized /\ PositiveBudgets /\ NonNegativeCoefficients) => ~ReportedInfeasible

C6_Witness ==
    Optimized /\ PositiveBudgets /\ NonNegativeCoefficients /\ Succeeded

\* reachable (with the negative budget): the failure value of an infeasible LP
C6_InfeasibleReported == Optimized /\ ReportedInfeasible

(***************************************************************************)
(* C7.  Rounding bound, as claimed: the returned quantities are not        *)
(* negative and the resource use of the returned plan exceeds R_max by at  *)
(* most 0.5 * (number of products).                                        *)
(* Half a unit of a product costs resource[i] / 2, not 1/2.                *)
(***************************************************************************)
NoNegativeQuantity == \A i \in DOMAIN call.rows : call.rows[i].recommended_qty >= 0
Overshoot == FSub(Dot(Resources, Quantities), F(call.R))

C7_RoundingBoundHalfPerProduct ==
    Succeeded =>
        /\ NoNegativeQuantity
        /\ FLe(Overshoot, FMul(Half, F(Len(call.rows))))

(***************************************************************************)
(* C7, amended: the returned quantities are not negative and the resource  *)
(* use of the returned plan exceeds R_max by at most                       *)
(* 0.5 * sum resource[i].                                                  *)
(***************************************************************************)
C7_RoundingBoundHalfResource ==
    Succeeded =>
        /\ NoNegativeQuantity
        /\ FLe(Overshoot, FMul(Half, FSum(Resources)))

C7_Witness ==
    Succeeded /\ FLt(FMul(Half, F(Len(call.rows))), Overshoot)

(***************************************************************************)
(* C8.  End-to-end allocation, as claimed: scored with w_t = w_r = 1 and   *)
(* the top-ranked product's score positive, optimize_production with the   *)
(* generous budgets gives a positive quantity to the top-ranked product    *)
(* and 0 to every other product.                                           *)
(* Stated for the tables whose values are all finite.  When the top        *)
(* product uses no time and no resource the LP is unbounded and no         *)
(* quantity is returned.                                                   *)
(***************************************************************************)
DefaultWeights == call.w_t = F(slider_value) /\ call.w_r = F(slider_value)
TopScorePositive == call.local # <<>> /\ FLt(F(0), call.local[1].score)
FiniteTable ==
    \A col \in Metrics : \A i \in DOMAIN product_stats :
        IsFinite(product_stats[i][col])

C9_NoUndefinedResource ==
    \A i \in DOMAIN product_stats :
        /\ product_stats[i].actual_quantity # F(0)
        /\ IsFinite(product_stats[i].resource)

\* the rows of the products whose mean actual_quantity is not 0 are finite
C9_FiniteWhenQuantityNotZero ==
    \A i \in DOMAIN product_stats :
        product_stats[i].actual_quantity # F(0) => IsFinite(product_stats[i].resource)

(***************************************************************************)
(* C10.  Scorer purity: whatever calls were made, product_stats is the     *)
(* table the aggregation produced, and compute_product_scores(w_t, w_r)    *)
(* returns the rows, scores and order that the aggregated table gives for  *)
(* (w_t, w_r): the same as every earlier call with these weights.          *)
(***************************************************************************)
C10_ScorerPurity ==
    /\ product_stats = aggregated
    /\ Scored =>
          call.rows = compute_product_scores(aggregated, argsort_ties, call.w_t, call.w_r)

C10_Witness ==
    Scored /\ Len(call.rows) > 1 /\ product_stats = aggregated

====
